---- MODULE Spec2Model ----
(***************************************************************************)
(* A state-machine model of the AI Math Notes front end:                   *)
(*   - the Canvas component (src/App.tsx, lines 186-331): a raster         *)
(*     surface with its 2D context, the isDrawing / isDirty state, the     *)
(*     ResizeObserver callback, the pointer handlers and the imperative    *)
(*     handle {clearCanvas, getImageData};                                 *)
(*   - the App component (src/App.tsx, lines 16-184): solution, isLoading, *)
(*     error, inputMode, textProblem and the solve / clear handlers.       *)
(*                                                                         *)
(* Every event handler is one atomic action: React commits the state       *)
(* updates of a handler before the next event is dispatched, and the       *)
(* imperative handle is rebuilt on every render (useImperativeHandle has   *)
(* no dependency list), so each handler reads the committed state.         *)
(*                                                                         *)
(* The raster is the set of painted pixels; a pixel is a pair <<x, y>>.    *)
(* A line segment paints the lattice points lying on it.                   *)
(***************************************************************************)
EXTENDS Integers, Sequences, FiniteSets

VARIABLES
    \* ---- Canvas component -------------------------------------------------
    hasContext,   \* contextRef.current # null
    isDrawing,    \* useState(false), src/App.tsx:202
    isDirty,      \* useState(false), src/App.tsx:203
    width,        \* canvas.width
    height,       \* canvas.height
    raster,       \* painted pixels of the live canvas bitmap
    path,         \* the context's current default path
    touches,      \* number of touch contacts that started on the canvas
    contentRect,  \* the parent's content box, <<width, height>> in half pixels
    style,        \* the context's stroke style
    \* ---- App component ----------------------------------------------------
    inputMode,    \* 'handwriting' | 'text'
    textProblem,  \* typed text, a sequence of characters
    solution,     \* MathSolution | null
    isLoading,
    error,        \* string | null
    pending,      \* the solver request in flight, or Null
    \* ---- observation ------------------------------------------------------
    lastOp,       \* the operation that produced the current state
    ret,          \* what that operation returned to its caller
    arg           \* what that operation was given

canvasVars ==
    <<hasContext, isDrawing, isDirty, width, height, raster, path, touches,
      contentRect, style>>
appVars == <<inputMode, textProblem, solution, isLoading, error, pending>>
vars == <<canvasVars, appVars, lastOp, ret, arg>>

\* ---- bounds ---------------------------------------------------------------
MaxW == 2
MaxH == 1
MaxTextLen == 1
MaxPending == 2
MaxTouches == 2

\* ---- values ---------------------------------------------------------------
Null == [kind |-> "null"]
Void == [kind |-> "void"]

Min(a, b) == IF a <= b THEN a ELSE b
Max(a, b) == IF a >= b THEN a ELSE b

\* The content boxes the observer can report, in half pixels (2 is 1px, 3 is
\* 1.5px): the width takes fractional values, the height whole ones.
ContentBoxes == (2..(2 * MaxW + 1)) \X {2 * h : h \in 1..MaxH}

\* The conversion of a length to the unsigned long that canvas.width and
\* canvas.height hold: the fraction is dropped.
ToUnsignedLong(halves) == halves \div 2

\* The pixels of a w x h bitmap.
Pixels(w, h) == (0..(w - 1)) \X (0..(h - 1))

\* Surface-local points of the contacts the model delivers: strokes run
\* along the top pixel row.  A mouse event or a new touch contact is on the
\* surface; a touch contact that slid off the element keeps reporting to
\* the element it started on, one step off its left or right edge.
SurfaceLocal(w, h) == (0..(w - 1)) \X {0}
TouchLocal(w, h) == (-1..w) \X {0}

\* getBoundingClientRect() origins of the canvas element in the viewport.
Origins == {<<0, 0>>, <<1, 2>>}

\* ---- the 2D context: path and bitmap -----------------------------------
\* A path is kept as its sub-path start, its current point and the pixels
\* its segments cover; stroke() paints the whole current path.
EmptyPath == [empty |-> TRUE, start |-> <<0, 0>>, cur |-> <<0, 0>>, pix |-> {}]

\* The lattice points on the segment from a to b.
LinePixels(a, b) ==
    { c \in (Min(a[1], b[1])..Max(a[1], b[1])) \X (Min(a[2], b[2])..Max(a[2], b[2])) :
        (b[1] - a[1]) * (c[2] - a[2]) = (b[2] - a[2]) * (c[1] - a[1]) }

\* context.beginPath()
BeginPath(pa) == EmptyPath

\* context.moveTo(x, y): a new sub-path at p.
MoveTo(pa, p) == [empty |-> FALSE, start |-> p, cur |-> p, pix |-> pa.pix]

\* context.lineTo(x, y): with no sub-path it only sets the point.
LineTo(pa, p) ==
    IF pa.empty THEN MoveTo(pa, p)
    ELSE [pa EXCEPT !.cur = p, !.pix = @ \cup LinePixels(pa.cur, p)]

\* context.closePath(): a segment back to the start of the sub-path.
ClosePath(pa) ==
    IF pa.empty THEN pa
    ELSE [pa EXCEPT !.cur = pa.start, !.pix = @ \cup LinePixels(pa.cur, pa.start)]

\* context.stroke(): paints the current path, clipped to the bitmap.
Stroke(r, pa, w, h) == r \cup (pa.pix \cap Pixels(w, h))

\* Mutant of ClearRect: width and height passed in the wrong order.
ClearRect_swapped(r, w, h) == r \ Pixels(h, w)

\* context.clearRect(0, 0, canvas.width, canvas.height)
ClearRect(r, w, h) == r \ Pixels(w, h)

\* The live bitmap as a pixel map: ink where painted, transparent elsewhere.
Bitmap(r, w, h) == [p \in Pixels(w, h) |-> IF p \in r THEN "ink" ELSE "transparent"]

\* tempCtx.fillStyle = '#FFFFFF'; tempCtx.fillRect(0, 0, w, h)
FillWhite(w, h) == [p \in Pixels(w, h) |-> "white"]

\* tempCtx.drawImage(canvas, 0, 0): source-over compositing.
DrawImage(dst, src) ==
    [p \in DOMAIN dst |->
        IF p \in DOMAIN src /\ src[p] # "transparent" THEN src[p] ELSE dst[p]]

\* toDataURL('image/png'): a lossless encoding of the bitmap.
ToDataURL(w, h, data) == [kind |-> "png", width |-> w, height |-> h, data |-> data]

\* The stroke style of a context: as created (or reset by a change of
\* dimensions), and as setupContext applies it.
DefaultStyle ==
    [lineCap |-> "butt", lineJoin |-> "miter", strokeStyle |-> "#000000", lineWidth |-> 1]
AppliedStyle(isDark) ==
    [lineCap |-> "round", lineJoin |-> "round",
     strokeStyle |-> IF isDark THEN "#E5E7EB" ELSE "#1F2937", lineWidth |-> 4]

\* ---- Canvas: pure helpers ------------------------------------------------
\* getCoords: the contact point minus the bounding-box origin; a touch
\* event reports touches[0].
\* Mutant of getCoords: the bounding box is not read again, the origin is
\* the one of the first layout.
getCoords_staleRect(event, rect) ==
    IF "touches" \in DOMAIN event
    THEN <<event.touches[1][1], event.touches[1][2]>>
    ELSE <<event.clientX, event.clientY>>

getCoords(event, rect) ==
    IF "touches" \in DOMAIN event
    THEN <<event.touches[1][1] - rect[1], event.touches[1][2] - rect[2]>>
    ELSE <<event.clientX - rect[1], event.clientY - rect[2]>>

\* Mutant of getImageData: the isDirty test is missing.
getImageData_ignoreDirty(tempCtx) ==
    IF tempCtx
    THEN ToDataURL(width, height,
                   DrawImage(FillWhite(width, height), Bitmap(raster, width, height)))
    ELSE ToDataURL(width, height, Bitmap(raster, width, height))

\* getImageData: null unless dirty; else the bitmap over opaque white, or,
\* when the temporary canvas yields no 2D context, the live bitmap itself.
getImageData(tempCtx) ==
    IF ~isDirty THEN Null
    ELSE IF tempCtx
         THEN ToDataURL(width, height,
                        DrawImage(FillWhite(width, height), Bitmap(raster, width, height)))
         ELSE ToDataURL(width, height, Bitmap(raster, width, height))

\* ---- Canvas: handlers ----------------------------------------------------
\* Mutant of startDrawing: setIsDirty(true) is missing.
startDrawing_skipDirty(event, rect) ==
    IF ~hasContext
    THEN UNCHANGED <<path, isDrawing, isDirty>>
    ELSE /\ path' = MoveTo(BeginPath(path), getCoords(event, rect))
         /\ isDrawing' = TRUE
         /\ isDirty' = isDirty

\* Mutant of startDrawing: the test for a context is missing.
startDrawing_noContextTest(event, rect) ==
    /\ path' = MoveTo(BeginPath(path), getCoords(event, rect))
    /\ isDrawing' = TRUE
    /\ isDirty' = TRUE

startDrawing(event, rect) ==
    IF ~hasContext
    THEN UNCHANGED <<path, isDrawing, isDirty>>
    ELSE /\ path' = MoveTo(BeginPath(path), getCoords(event, rect))
         /\ isDrawing' = TRUE
         /\ isDirty' = TRUE

\* Mutant of draw: the isDrawing test is missing.
draw_noGuard(event, rect) ==
    IF ~hasContext
    THEN UNCHANGED <<path, raster>>
    ELSE /\ path' = LineTo(path, getCoords(event, rect))
         /\ raster' = Stroke(raster, path', width, height)

draw(event, rect) ==
    IF ~isDrawing \/ ~hasContext
    THEN UNCHANGED <<path, raster>>
    ELSE /\ path' = LineTo(path, getCoords(event, rect))
         /\ raster' = Stroke(raster, path', width, height)

stopDrawing ==
    /\ path' = IF hasContext THEN ClosePath(path) ELSE path
    /\ isDrawing' = FALSE

\* Mutant of setupContext: a style applied earlier is kept as it is.
setupContext_cached(got, base, isDark) ==
    /\ hasContext' = (hasContext \/ got)
    /\ style' = IF hasContext \/ got
                THEN (IF style # DefaultStyle THEN style ELSE AppliedStyle(isDark))
                ELSE base

\* setupContext: keeps the context once canvas.getContext('2d') gave one,
\* and styles the context it gets; base is the style before the call and
\* isDark what the page's dark class reads at the call.
setupContext(got, base, isDark) ==
    /\ hasContext' = (hasContext \/ got)
    /\ style' = IF hasContext \/ got THEN AppliedStyle(isDark) ELSE base

\* The ResizeObserver callback: assigning canvas.width / canvas.height
\* clears the bitmap and resets the context (its path included).
resizeObserver(entry, got, isDark) ==
    /\ width' = ToUnsignedLong(entry[1])
    /\ height' = ToUnsignedLong(entry[2])
    /\ raster' = {}
    /\ path' = EmptyPath
    /\ setupContext(got, DefaultStyle, isDark)

\* Mutant of clearCanvas: the flag is set the wrong way round.
clearCanvas_setsDirty ==
    IF hasContext
    THEN /\ raster' = ClearRect(raster, width, height)
         /\ isDirty' = TRUE
    ELSE UNCHANGED <<raster, isDirty>>

\* Mutant of clearCanvas: setIsDirty(false) is missing.
clearCanvas_keepDirty ==
    IF hasContext
    THEN /\ raster' = ClearRect(raster, width, height)
         /\ isDirty' = isDirty
    ELSE UNCHANGED <<raster, isDirty>>

clearCanvas ==
    IF hasContext
    THEN /\ raster' = ClearRect(raster, width, height)
         /\ isDirty' = FALSE
    ELSE UNCHANGED <<raster, isDirty>>

\* ---- Canvas: mount / unmount ----------------------------------------------
\* While the Canvas is not rendered there is no surface.
NoCanvas ==
    /\ hasContext' = FALSE /\ isDrawing' = FALSE /\ isDirty' = FALSE
    /\ width' = 0 /\ height' = 0 /\ raster' = {} /\ path' = EmptyPath
    /\ touches' = 0 /\ contentRect' = <<0, 0>> /\ style' = DefaultStyle

\* A fresh Canvas after its mount effect and the observer's first report.
\* Mutant of MountCanvas: the new surface starts with ink-present set.
MountCanvas_dirty(entry, got, isDark) ==
    /\ hasContext' = got /\ isDrawing' = FALSE /\ isDirty' = TRUE
    /\ width' = ToUnsignedLong(entry[1]) /\ height' = ToUnsignedLong(entry[2])
    /\ raster' = {} /\ path' = EmptyPath
    /\ touches' = 0 /\ contentRect' = entry
    /\ style' = IF got THEN AppliedStyle(isDark) ELSE DefaultStyle

MountCanvas(entry, got, isDark) ==
    /\ hasContext' = got /\ isDrawing' = FALSE /\ isDirty' = FALSE
    /\ width' = ToUnsignedLong(entry[1]) /\ height' = ToUnsignedLong(entry[2])
    /\ raster' = {} /\ path' = EmptyPath
    /\ touches' = 0 /\ contentRect' = entry
    /\ style' = IF got THEN AppliedStyle(isDark) ELSE DefaultStyle

\* ---- events delivered to the <canvas> element ----------------------------
Mounted == inputMode = "handwriting"

MouseEvent(o, l) == [clientX |-> o[1] + l[1], clientY |-> o[2] + l[2]]
TouchEvent(o, ls) == [touches |-> [i \in DOMAIN ls |-> <<o[1] + ls[i][1], o[2] + ls[i][2]>>]]

\* The contacts of a touch event: the oldest at l, any other at the corner.
Contacts(n, l) == [i \in 1..n |-> IF i = 1 THEN l ELSE <<0, 0>>]

Done(op, r) == lastOp' = op /\ ret' = r /\ arg' = Void
DoneWith(op, r, a) == lastOp' = op /\ ret' = r /\ arg' = a

\* What a pointer event was given: the contact's viewport point and the
\* element's bounding-box origin at that moment.
Pointer(o, l) == [point |-> <<o[1] + l[1], o[2] + l[2]>>, origin |-> o]

MouseDown ==
    /\ Mounted
    /\ \E o \in Origins, l \in SurfaceLocal(width, height) :
          /\ startDrawing(MouseEvent(o, l), o)
          /\ DoneWith("mousedown", Void, Pointer(o, l))
    /\ UNCHANGED <<hasContext, width, height, raster, touches, contentRect, style,
                   appVars>>

MouseMove ==
    /\ Mounted
    /\ \E o \in Origins, l \in SurfaceLocal(width, height) :
          /\ draw(MouseEvent(o, l), o)
          /\ DoneWith("mousemove", Void, Pointer(o, l))
    /\ UNCHANGED <<hasContext, isDrawing, isDirty, width, height, touches,
                   contentRect, style, appVars>>

MouseUp ==
    /\ Mounted
    /\ stopDrawing
    /\ UNCHANGED <<hasContext, isDirty, width, height, raster, touches,
                   contentRect, style, appVars>>
    /\ Done("mouseup", Void)

MouseLeave ==
    /\ Mounted
    /\ stopDrawing
    /\ UNCHANGED <<hasContext, isDirty, width, height, raster, touches,
                   contentRect, style, appVars>>
    /\ Done("mouseleave", Void)

\* A new contact lands on the surface; touches[0] is the oldest contact.
TouchStart ==
    /\ Mounted
    /\ touches < MaxTouches
    /\ touches' = touches + 1
    /\ \E o \in Origins, l \in TouchLocal(width, height) :
          /\ touches = 0 => l \in SurfaceLocal(width, height)
          /\ startDrawing(TouchEvent(o, Contacts(touches + 1, l)), o)
          /\ DoneWith("touchstart", Void, Pointer(o, l))
    /\ UNCHANGED <<hasContext, width, height, raster, contentRect, style, appVars>>

TouchMove ==
    /\ Mounted
    /\ touches > 0
    /\ \E o \in Origins, l \in TouchLocal(width, height) :
          /\ draw(TouchEvent(o, Contacts(touches, l)), o)
          /\ DoneWith("touchmove", Void, Pointer(o, l))
    /\ UNCHANGED <<hasContext, isDrawing, isDirty, width, height, touches,
                   contentRect, style, appVars>>

\* One of the contacts is lifted: the oldest (1) or a later one.
TouchEnd ==
    /\ Mounted
    /\ touches > 0
    /\ touches' = touches - 1
    /\ stopDrawing
    /\ UNCHANGED <<hasContext, isDirty, width, height, raster, contentRect, style,
                   appVars>>
    /\ \E lifted \in 1..touches : DoneWith("touchend", Void, [lifted |-> lifted])

\* The container's content box changed and the observer reports it; a
\* canvas that has given its 2D context gives the same one again.
Resize ==
    /\ Mounted
    /\ \E entry \in ContentBoxes \ {contentRect},
          got \in (IF hasContext THEN {TRUE} ELSE BOOLEAN), isDark \in BOOLEAN :
          /\ contentRect' = entry
          /\ resizeObserver(entry, got, isDark)
          /\ DoneWith("resize", Void, [dark |-> isDark])
    /\ UNCHANGED <<isDrawing, isDirty, touches, appVars>>

\* ---- the imperative handle, called by a parent ---------------------------
ClearCanvasCall ==
    /\ Mounted
    /\ clearCanvas
    /\ UNCHANGED <<hasContext, isDrawing, width, height, path, touches,
                   contentRect, style, appVars>>
    /\ Done("clearCanvas", Void)

GetImageDataCall ==
    /\ Mounted
    /\ \E tempCtx \in BOOLEAN : Done("getImageData", getImageData(tempCtx))
    /\ UNCHANGED <<canvasVars, appVars>>

\* ---- specification of the Canvas component --------------------------------
Init ==
    /\ hasContext \in BOOLEAN
    /\ \E isDark \in BOOLEAN :
          style = IF hasContext THEN AppliedStyle(isDark) ELSE DefaultStyle
    /\ isDrawing = FALSE
    /\ isDirty = FALSE
    /\ contentRect \in ContentBoxes
    /\ width = ToUnsignedLong(contentRect[1])
    /\ height = ToUnsignedLong(contentRect[2])
    /\ raster = {}
    /\ path = EmptyPath
    /\ touches = 0
    /\ inputMode = "handwriting"
    /\ textProblem = <<>>
    /\ solution = Null
    /\ isLoading = FALSE
    /\ error = Null
    /\ pending = <<>>
    /\ lastOp = "init"
    /\ ret = Void
    /\ arg = Void

\* ---- App: values --------------------------------------------------------
Chars == {" ", "a"}
TextValues == UNION {[1..n -> Chars] : n \in 0..MaxTextLen}

IsSpace(c) == c = " "

\* String.prototype.trim(): strips leading and trailing white space.
RECURSIVE TrimStart(_)
TrimStart(s) == IF s # <<>> /\ IsSpace(Head(s)) THEN TrimStart(Tail(s)) ELSE s
RECURSIVE TrimEnd(_)
TrimEnd(s) ==
    IF s # <<>> /\ IsSpace(s[Len(s)]) THEN TrimEnd(SubSeq(s, 1, Len(s) - 1)) ELSE s
\* Mutant of Trim: the text is tested untrimmed.
Trim_none(s) == s

Trim(s) == TrimEnd(TrimStart(s))

CanvasEmptyMessage == "The canvas is empty. Please write a math problem."
TextEmptyMessage == "The text input is empty. Please type a math problem."
FailedPrefix == "Failed to solve: "
SolverFailureMessage == "The AI model could not process the request. Please try again."

ErrorOf(message) == [kind |-> "error", message |-> message]

\* What the awaited solver call can settle to: a MathSolution, or an Error.
Solved(result) ==
    [kind |-> "solution", expression |-> "1+1", result |-> result,
     explanation |-> "steps"]
SolverOutcomes(request) ==
    { [ok |-> TRUE, value |-> Solved("2")],
      [ok |-> TRUE, value |-> Solved("Error")],
      [ok |-> FALSE, message |-> SolverFailureMessage] }

Remove(q, i) == SubSeq(q, 1, i - 1) \o SubSeq(q, i + 1, Len(q))

\* canvasRef.current: the handle is attached while the Canvas is rendered.
CanvasHandle == inputMode = "handwriting"

\* ---- App: handlers -------------------------------------------------------
\* Mutant of handleSolve: setSolution(null) is missing.
handleSolve_keepsSolution(tempCtx) ==
    LET imageDataUrl == getImageData(tempCtx) IN
    IF inputMode = "handwriting"
    THEN IF ~CanvasHandle
         THEN /\ solution' = solution /\ error' = Null /\ isLoading' = FALSE
              /\ pending' = pending
         ELSE IF imageDataUrl = Null
         THEN /\ solution' = solution /\ error' = ErrorOf(CanvasEmptyMessage)
              /\ isLoading' = FALSE
              /\ pending' = pending
         ELSE /\ solution' = solution /\ error' = Null /\ isLoading' = TRUE
              /\ pending' = Append(pending, [kind |-> "image"])
    ELSE IF Trim(textProblem) = <<>>
         THEN /\ solution' = solution /\ error' = ErrorOf(TextEmptyMessage)
              /\ isLoading' = FALSE
              /\ pending' = pending
         ELSE /\ solution' = solution /\ error' = Null /\ isLoading' = TRUE
              /\ pending' = Append(pending, [kind |-> "text"])

\* handleSolve up to its await (or to its return on the early exits).
handleSolve(tempCtx) ==
    LET imageDataUrl == getImageData(tempCtx) IN
    IF inputMode = "handwriting"
    THEN IF ~CanvasHandle
         THEN /\ solution' = Null /\ error' = Null /\ isLoading' = FALSE
              /\ pending' = pending
         ELSE IF imageDataUrl = Null
         THEN /\ solution' = Null /\ error' = ErrorOf(CanvasEmptyMessage)
              /\ isLoading' = FALSE
              /\ pending' = pending
         ELSE /\ solution' = Null /\ error' = Null /\ isLoading' = TRUE
              /\ pending' = Append(pending, [kind |-> "image"])
    ELSE IF Trim(textProblem) = <<>>
         THEN /\ solution' = Null /\ error' = ErrorOf(TextEmptyMessage)
              /\ isLoading' = FALSE
              /\ pending' = pending
         ELSE /\ solution' = Null /\ error' = Null /\ isLoading' = TRUE
              /\ pending' = Append(pending, [kind |-> "text"])

\* Mutant of handleSolveSettled: the finally block is missing.
handleSolveSettled_noFinally(outcome) ==
    /\ IF outcome.ok
       THEN solution' = outcome.value /\ error' = error
       ELSE error' = ErrorOf(<<FailedPrefix, outcome.message>>) /\ solution' = solution
    /\ isLoading' = isLoading

\* The rest of handleSolve once the awaited call settles.
handleSolveSettled(outcome) ==
    /\ IF outcome.ok
       THEN solution' = outcome.value /\ error' = error
       ELSE error' = ErrorOf(<<FailedPrefix, outcome.message>>) /\ solution' = solution
    /\ isLoading' = FALSE

handleClear ==
    /\ IF inputMode = "handwriting"
       THEN /\ (IF CanvasHandle THEN clearCanvas ELSE UNCHANGED <<raster, isDirty>>)
            /\ textProblem' = textProblem
       ELSE /\ textProblem' = <<>>
            /\ UNCHANGED <<raster, isDirty>>
    /\ solution' = Null
    /\ error' = Null
    /\ isLoading' = FALSE

handleTextChange(value) ==
    /\ textProblem' = value
    /\ error' = IF error # Null THEN Null ELSE error

\* ---- App: events ---------------------------------------------------------
\* Mutant of SolveClick: the Solve button is not disabled while isLoading.
SolveClick_enabled ==
    /\ Len(pending) < MaxPending
    /\ \E tempCtx \in BOOLEAN : handleSolve(tempCtx)
    /\ UNCHANGED <<canvasVars, inputMode, textProblem>>
    /\ Done("solve", Void)

\* Toolbar: the Solve and Clear buttons are disabled while isLoading.
SolveClick ==
    /\ ~isLoading
    /\ Len(pending) < MaxPending
    /\ \E tempCtx \in BOOLEAN : handleSolve(tempCtx)
    /\ UNCHANGED <<canvasVars, inputMode, textProblem>>
    /\ Done("solve", Void)

SolverSettles ==
    /\ \E i \in 1..Len(pending) :
          /\ \E outcome \in SolverOutcomes(pending[i]) :
                /\ handleSolveSettled(outcome)
                /\ DoneWith("settle", Void, [request |-> pending[i], outcome |-> outcome])
          /\ pending' = Remove(pending, i)
    /\ UNCHANGED <<canvasVars, inputMode, textProblem>>

ClearClick ==
    /\ ~isLoading
    /\ handleClear
    /\ UNCHANGED <<hasContext, isDrawing, width, height, path, touches, contentRect,
                   style, inputMode, pending>>
    /\ Done("clear", Void)

TextInput ==
    /\ inputMode = "text"
    /\ \E value \in TextValues \ {textProblem} : handleTextChange(value)
    /\ UNCHANGED <<canvasVars, inputMode, solution, isLoading, pending>>
    /\ Done("input", Void)

\* The mode buttons: leaving 'handwriting' unmounts the Canvas, returning
\* to it mounts a new one.
ModeClick ==
    /\ \E mode \in {"handwriting", "text"} :
          /\ inputMode' = mode
          /\ IF mode = inputMode THEN UNCHANGED canvasVars
             ELSE IF mode = "text" THEN NoCanvas
             ELSE \E entry \in ContentBoxes, got \in BOOLEAN, isDark \in BOOLEAN :
                     MountCanvas(entry, got, isDark)
    /\ UNCHANGED <<textProblem, solution, isLoading, error, pending>>
    /\ Done("mode", Void)

PointerEvent ==
    \/ MouseDown \/ MouseMove \/ MouseUp \/ MouseLeave
    \/ TouchStart \/ TouchMove \/ TouchEnd

Next == PointerEvent \/ Resize \/ ClearCanvasCall \/ GetImageDataCall

Spec == Init /\ [][Next]_vars

\* ---- specification of the App: the user's events and the solver ----------
\* The App is driven with a mouse here, and its container takes a size when
\* the Canvas mounts; Spec covers touch input and later changes of size.
NextApp ==
    \/ MouseDown \/ MouseMove \/ MouseUp
    \/ SolveClick \/ SolverSettles \/ ClearClick \/ TextInput \/ ModeClick

SpecApp == Init /\ [][NextApp]_vars

\* The awaited solver call settles: a promise that settles has its
\* continuation run.
SpecAppFair == SpecApp /\ WF_vars(SolverSettles)

\* ---- the solver service --------------------------------------------------
\* JavaScript values as they come out of JSON.parse; strings are sequences
\* of characters.
Undefined == [t |-> "undefined"]
JsNull == [t |-> "null"]
JsString(chars) == [t |-> "string", v |-> chars]
JsNumber(n) == [t |-> "number", v |-> n]
JsObject(fields) == [t |-> "object", v |-> fields]

\* typeof
TypeOf(v) == IF v.t = "null" THEN "object" ELSE v.t

Digit(d) == SubSeq(<<"0", "1", "2", "3", "4", "5", "6", "7", "8", "9">>, d + 1, d + 1)
RECURSIVE Decimal(_)
Decimal(n) == IF n < 10 THEN Digit(n) ELSE Decimal(n \div 10) \o Digit(n % 10)

\* String(value)
String(v) ==
    CASE v.t = "string" -> v.v
      [] v.t = "number" -> Decimal(v.v)
      [] v.t = "null" -> <<"n", "u", "l", "l">>
      [] v.t = "undefined" -> <<"u", "n", "d", "e", "f", "i", "n", "e", "d">>
      [] OTHER -> <<"[", "o", "b", "j", "e", "c", "t", " ", "O", "b", "j", "e", "c", "t", "]">>

\* value.name: a TypeError on null, undefined on a missing property.
CanRead(v) == v.t \notin {"null", "undefined"}
Get(v, name) ==
    IF v.t = "object" /\ name \in DOMAIN v.v THEN v.v[name] ELSE Undefined

\* imageDataUrl.split(','): the pieces between the commas.
RECURSIVE Split(_, _)
Split(chars, piece) ==
    IF chars = <<>> THEN <<piece>>
    ELSE IF Head(chars) = "," THEN <<piece>> \o Split(Tail(chars), <<>>)
    ELSE Split(Tail(chars), Append(piece, Head(chars)))

\* The values a field of the reply can hold, and the replies themselves:
\* the request is rejected, or it gives a response whose text is undefined,
\* only white space, not JSON, or the JSON of some value.
FieldValues == {Undefined, JsNull, JsNumber(42), JsString(<<"2">>)}
Objects ==
    { JsObject([n \in names |-> f[n]]) :
        names \in SUBSET {"expression", "result", "explanation"},
        f \in [{"expression", "result", "explanation"} -> FieldValues \ {Undefined}] }
Texts ==
    {Undefined, [t |-> "text", blank |-> TRUE], [t |-> "text", blank |-> FALSE, json |-> FALSE]}
    \cup { [t |-> "text", blank |-> FALSE, json |-> TRUE, value |-> v] :
             v \in Objects \cup {JsNull, JsNumber(42)} }
Replies == {[ok |-> FALSE]} \cup {[ok |-> TRUE, text |-> t] : t \in Texts}

DataUrls ==
    { <<"d", "a", "t", "a", ":", ";", ",", "A", "B">>,
      <<"d", "a", "t", "a", ":", ";", ",">>,
      <<"d", "a", "t", "a", ":">>,
      <<>> }

Return(value) == [kind |-> "return", value |-> value]
Throw(message) == [kind |-> "throw", error |-> [name |-> "Error", message |-> message]]

\* The body of the try block: Return, or the Error thrown inside it.
generateContent(reply) ==
    IF ~reply.ok THEN Throw("request failed")
    ELSE IF reply.text = Undefined \/ reply.text.blank
    THEN Throw("Received an empty response from the AI.")
    ELSE IF ~reply.text.json THEN Throw("SyntaxError")
    ELSE LET parsedResult == reply.text.value IN
         IF ~CanRead(parsedResult) THEN Throw("TypeError")
         ELSE IF \/ TypeOf(Get(parsedResult, "expression")) # "string"
                 \/ TypeOf(Get(parsedResult, "result")) = "undefined"
                 \/ TypeOf(Get(parsedResult, "explanation")) # "string"
         THEN Throw("AI response is not in the expected format.")
         ELSE Return([expression |-> Get(parsedResult, "expression"),
                      result |-> JsString(String(Get(parsedResult, "result"))),
                      explanation |-> Get(parsedResult, "explanation")])

\* try { ... } catch (error) { throw new Error(...) }
tryCatch(result) ==
    IF result.kind = "throw" THEN Throw(SolverFailureMessage) ELSE result

\* What a call settles to, and whether its request was sent.
Settled(sent, result) == [sent |-> sent, result |-> result]

\* Mutant of solveMathProblem: the test of the payload is missing.
solveMathProblem_noPayloadTest(imageDataUrl, reply) ==
    Settled(TRUE, tryCatch(generateContent(reply)))

\* solveMathProblem: what the call settles to under the reply the request
\* gets, and whether the request was sent.
solveMathProblem(imageDataUrl, reply) ==
    LET parts == Split(imageDataUrl, <<>>)
        base64Data == IF Len(parts) >= 2 THEN JsString(parts[2]) ELSE Undefined
    IN  IF base64Data = Undefined \/ base64Data.v = <<>>
        THEN Settled(FALSE, Throw("Invalid image data provided."))
        ELSE Settled(TRUE, tryCatch(generateContent(reply)))

solveMathProblemFromText(problem, reply) ==
    Settled(TRUE, tryCatch(generateContent(reply)))

SolveImageCall ==
    /\ \E imageDataUrl \in DataUrls, reply \in Replies :
          DoneWith("solveMathProblem", solveMathProblem(imageDataUrl, reply),
                   [input |-> imageDataUrl, reply |-> reply])
    /\ UNCHANGED <<canvasVars, appVars>>

SolveTextCall ==
    /\ \E problem \in TextValues, reply \in Replies :
          DoneWith("solveMathProblemFromText", solveMathProblemFromText(problem, reply),
                   [input |-> problem, reply |-> reply])
    /\ UNCHANGED <<canvasVars, appVars>>

\* ---- specification of the solver service: calls under every reply --------
NextSolver == SolveImageCall \/ SolveTextCall

SpecSolver == Init /\ [][NextSolver]_vars


\* ---- properties ----------------------------------------------------------
BeginOps == {"mousedown", "touchstart"}
MoveOps == {"mousemove", "touchmove"}
EndOps == {"mouseup", "touchend", "mouseleave"}

\* exportSnapshot() would return "no content" now, whichever way the
\* temporary context turns out.
NoContent == \A tempCtx \in BOOLEAN : getImageData(tempCtx) = Null

\* C1: after a finished stroke and then a container resize, ink-present is
\* false and exportSnapshot() returns "no content" (until the next begin).
C1_ResizeDiscardsInk ==
    (lastOp = "resize" /\ ~isDrawing) => (~isDirty /\ NoContent)

\* C2: a begin on a surface with a rendering context makes ink-present
\* true, and no operation other than an explicit clear or a dimension
\* change (so no begin, move, end, leave or export) makes it false again.
C2_InkPersists ==
    [][ /\ (lastOp' \in BeginOps /\ hasContext) => isDirty'
        /\ (isDirty /\ lastOp' \notin {"clearCanvas", "resize"}) => isDirty'
      ]_vars

\* C2 witness: a begin, a move that painted and an end have happened and
\* ink-present is still true.
C2_Witness ==
    lastOp \in {"mouseup", "touchend", "mouseleave"} /\ isDirty /\ raster # {}

\* C3: an exportSnapshot() called right after a clear(), with no event in
\* between, returns "no content", whatever ink there was before the clear
\* and whether or not a stroke is active.
C3_ClearThenExport ==
    [][ (lastOp = "clearCanvas" /\ lastOp' = "getImageData") => ret' = Null ]_vars

\* C3 witness: an export returned "no content" in the middle of a stroke
\* whose path had already painted pixels: the clear came mid-stroke and
\* wiped them.
C3_Witness ==
    /\ lastOp = "getImageData" /\ ret = Null
    /\ isDrawing /\ path.pix \cap Pixels(width, height) # {} /\ raster = {}

\* C4: without a begin event no snapshot becomes available: ink-present is
\* false at creation, and a move, end, leave, resize, clear or export that
\* starts where exportSnapshot() returns "no content" ends there too.
C4_NoBeginNoSnapshot ==
    /\ NoContent
    /\ [][ (NoContent /\ lastOp' \notin BeginOps) => NoContent' ]_vars

\* C4 witness: an export on a surface with a context, after a resize reset
\* the path, returned "no content".
C4_Witness ==
    /\ lastOp = "getImageData" /\ ret = Null
    /\ hasContext /\ ~isDirty /\ path = EmptyPath /\ width = MaxW

\* C5: a non-null snapshot has the dimensions of the live surface and is
\* opaque white at every pixel no stroke covers, on every path of the
\* export, the one without an off-surface context included.
C5_WhiteBackground ==
    (lastOp = "getImageData" /\ ret # Null) =>
        /\ ret.width = width /\ ret.height = height
        /\ \A p \in Pixels(width, height) \ raster : ret.data[p] = "white"

\* C6: a non-null snapshot is never blank: the live raster then holds at
\* least one rendered stroke pixel drawn since the last clear or resize.
C6_NeverBlank ==
    (lastOp = "getImageData" /\ ret # Null) =>
        /\ raster # {}
        /\ \E p \in Pixels(width, height) : ret.data[p] = "ink"

\* C7: exportSnapshot() changes neither the raster, drawing-active,
\* ink-present, the dimensions nor the current path, and two exports in a
\* row with no event between them return equal results.
C7_ExportIsPureRead ==
    [][ /\ lastOp' = "getImageData" => UNCHANGED canvasVars
        /\ (lastOp = "getImageData" /\ lastOp' = "getImageData") => ret' = ret
      ]_vars

\* The input of a solve request is empty: the export would return "no
\* content" (handwriting), or the typed text is empty or white space (text).
EmptyInput ==
    IF inputMode = "handwriting" THEN NoContent
    ELSE \A i \in 1..Len(textProblem) : textProblem[i] = " "

\* C8: a solve request on empty input never invokes the solver: it sets an
\* error message, leaves the solution null and ends with loading false.
C8_EmptyInputNotSolved ==
    [][ (lastOp' = "solve" /\ EmptyInput) =>
            /\ pending' = pending
            /\ error' # Null
            /\ solution' = Null
            /\ isLoading' = FALSE
      ]_vars

\* C8 witness: a solve request on white-space-only text was answered with
\* the empty-text message.
C8_Witness ==
    /\ lastOp = "solve" /\ inputMode = "text" /\ textProblem # <<>>
    /\ error = ErrorOf(TextEmptyMessage) /\ pending = <<>> /\ ~isLoading

\* The tracked contact leaves the surface in this step: the mouse pointer
\* (mouseleave), or the touch contact, whose move reports a point off the
\* surface.
LeavesSurface ==
    \/ lastOp' = "mouseleave"
    \/ lastOp' = "touchmove" /\ path'.cur \notin Pixels(width, height)

\* C9: leaving the surface while drawing-active ends the stroke, for mouse
\* and for touch input: drawing-active becomes false, and while it is false
\* a move extends no path and changes no pixel.
C9_LeaveEndsStroke ==
    [][ /\ (isDrawing /\ LeavesSurface) => ~isDrawing'
        /\ (~isDrawing /\ lastOp' \in MoveOps) => UNCHANGED <<path, raster>>
      ]_vars

\* C10: after a clear() on a surface with a rendering context the raster
\* is fully transparent and ink-present is false, on a surface without ink
\* as well; a second clear() right after the first changes nothing.
C10_ClearIdempotent ==
    /\ [](lastOp = "clearCanvas" =>
            /\ ~isDirty
            /\ hasContext =>
                  \A p \in Pixels(width, height) :
                      Bitmap(raster, width, height)[p] = "transparent")
    /\ [][ (lastOp = "clearCanvas" /\ lastOp' = "clearCanvas") =>
                UNCHANGED canvasVars ]_vars

\* C10 witness: a clear() in the middle of a stroke that had painted
\* pixels left the raster empty and ink-present false.
C10_Witness ==
    /\ lastOp = "clearCanvas" /\ hasContext /\ raster = {} /\ ~isDirty
    /\ path.pix \cap Pixels(width, height) # {}

\* C11: a move changes the raster only while drawing-active is true, and
\* drawing-active is true only between a begin and the next end or leave:
\* it turns true only at a begin, is false after every end or leave, and a
\* move while it is false changes neither the raster, the path,
\* drawing-active nor ink-present.
C11_MoveOnlyWhileDrawing ==
    [][ /\ (lastOp' \in MoveOps /\ ~isDrawing) =>
              UNCHANGED <<raster, path, isDrawing, isDirty>>
        /\ lastOp' \in MoveOps => UNCHANGED <<isDrawing, isDirty>>
        /\ (~isDrawing /\ isDrawing') => lastOp' \in BeginOps
        /\ lastOp' \in EndOps => ~isDrawing'
      ]_vars

\* C11 witness: a move arrived after the stroke had ended and its ink is
\* on the raster.
C11_Witness ==
    lastOp \in MoveOps /\ ~isDrawing /\ hasContext /\ isDirty /\ raster # {}

\* C12 as stated: after every observed size change the raster's width and
\* height equal the content box's, the raster is empty and the stroke style
\* is the applied one, its colour chosen from the dark signal of that moment.
C12_ResizeMatchesContentBox ==
    [][ lastOp' = "resize" =>
          /\ 2 * width' = contentRect'[1]
          /\ 2 * height' = contentRect'[2]
          /\ raster' = {}
          /\ style' = AppliedStyle(arg'.dark)
      ]_vars

\* C12: after every observed size change the raster's width and height are
\* the content box's with the fraction dropped, the raster is empty, and,
\* when a rendering context is available, the stroke style is round cap,
\* round join, width 4 and the colour of the dark signal read at that moment
\* (never the colour of an earlier application); without a context the
\* style is the default one.
C12_ResizeTruncatesAndRestyles ==
    [][ lastOp' = "resize" =>
          /\ 2 * width' <= contentRect'[1] /\ contentRect'[1] < 2 * width' + 2
          /\ 2 * height' <= contentRect'[2] /\ contentRect'[2] < 2 * height' + 2
          /\ raster' = {}
          /\ hasContext' =>
                /\ style'.lineCap = "round" /\ style'.lineJoin = "round"
                /\ style'.lineWidth = 4
                /\ style'.strokeStyle = (IF arg'.dark THEN "#E5E7EB" ELSE "#1F2937")
          /\ ~hasContext' => style' = DefaultStyle
      ]_vars

C12_Witness ==
    /\ lastOp = "resize" /\ hasContext /\ arg.dark
    /\ contentRect[1] = 2 * width + 1
    /\ style = AppliedStyle(TRUE) /\ isDirty

\* C13: while no rendering context is available, begin, move, end and clear
\* change none of drawing-active, ink-present and the raster, and leave no
\* snapshot to export (the export still returns "no content").
C13_NoContextIgnored ==
    [][ (~hasContext /\ lastOp' \in BeginOps \cup MoveOps \cup EndOps \cup {"clearCanvas"}) =>
           /\ UNCHANGED <<isDrawing, isDirty, raster>>
           /\ ~isDrawing' /\ NoContent'
      ]_vars

C13_Witness ==
    lastOp \in BeginOps /\ ~hasContext /\ ~isDrawing /\ ~isDirty /\ arg # Void

\* C14: every begin, and every move while drawing-active, at viewport point
\* P on a surface whose bounding-box origin is O at that moment puts the
\* path's current point at (P.x - O.x, P.y - O.y), for mouse and for touch
\* input alike.
C14_LocalCoordinates ==
    [][ ( /\ hasContext
          /\ lastOp' \in BeginOps \/ (lastOp' \in MoveOps /\ isDrawing) ) =>
            /\ ~path'.empty
            /\ path'.cur = <<arg'.point[1] - arg'.origin[1],
                             arg'.point[2] - arg'.origin[2]>>
      ]_vars

\* A touch move on a surface whose origin is not the viewport's: the point
\* added is the local one, not the viewport one.
C14_Witness ==
    /\ lastOp = "touchmove" /\ isDrawing /\ hasContext
    /\ arg.origin # <<0, 0>> /\ arg.point # path.cur
    /\ path.cur # path.start /\ path.cur \in raster

\* C15: with several touch contacts only the first is tracked: every begin
\* and move takes its point from the first contact, the touch-down of
\* another contact starts no new stroke, and the lift of another contact
\* does not end the stroke of the first.
C15_OnlyFirstContact ==
    [][ /\ ( /\ hasContext
             /\ lastOp' = "touchstart" \/ (lastOp' = "touchmove" /\ isDrawing) ) =>
               path'.cur = <<arg'.point[1] - arg'.origin[1],
                             arg'.point[2] - arg'.origin[2]>>
        /\ (lastOp' = "touchstart" /\ touches > 0) =>
               UNCHANGED <<path.pix, isDrawing, isDirty, raster>>
        /\ (lastOp' = "touchend" /\ arg'.lifted > 1 /\ isDrawing) => isDrawing'
      ]_vars

SolverOps == {"solveMathProblem", "solveMathProblemFromText"}

\* The reply's text is the JSON of an object.
ObjectReply ==
    /\ arg.reply.ok /\ arg.reply.text # Undefined
    /\ ~arg.reply.text.blank /\ arg.reply.text.json
    /\ arg.reply.text.value.t = "object"
HasField(name) == name \in DOMAIN arg.reply.text.value.v
HasString(name) == HasField(name) /\ arg.reply.text.value.v[name].t = "string"

\* The data URL has nothing after its first comma (or no comma).
NoPayload ==
    LET commas == {i \in 1..Len(arg.input) : arg.input[i] = ","} IN
    \/ commas = {}
    \/ \E c \in commas :
          /\ \A d \in commas : c <= d
          /\ c = Len(arg.input) \/ arg.input[c + 1] = ","

\* Every call returns three strings or throws an Error, and an image data
\* URL without payload throws before a request is sent.
ReturnsStringsOrThrows ==
    /\ ret.result.kind \in {"return", "throw"}
    /\ ret.result.kind = "throw" => ret.result.error.name = "Error"
    /\ ret.result.kind = "return" =>
          \A name \in {"expression", "result", "explanation"} :
              ret.result.value[name].t = "string"
    /\ (lastOp = "solveMathProblem" /\ NoPayload) =>
          ret.result.kind = "throw" /\ ~ret.sent

\* C16 as stated: each solver call returns an object of three strings or
\* throws an Error; an empty response, unparsable JSON, a missing or wrongly
\* typed field or a failed request never yields a returned value; an image
\* data URL without payload throws before a request is sent.
C16_OnlyWellTypedRepliesReturn ==
    lastOp \in SolverOps =>
        /\ ReturnsStringsOrThrows
        /\ ret.result.kind = "return" =>
              /\ ObjectReply
              /\ HasString("expression") /\ HasString("result") /\ HasString("explanation")

\* C16: each solver call returns an object of three strings or throws an
\* Error; it returns exactly when the request was sent and the reply is the
\* JSON of an object whose expression and explanation are strings and whose
\* result is present, of any type: the result is converted to a string. An
\* image data URL without payload throws before a request is sent.
C16_SolverReturnsOrThrows ==
    lastOp \in SolverOps =>
        /\ ReturnsStringsOrThrows
        /\ ret.result.kind = "return" <=>
              /\ lastOp = "solveMathProblem" => ~NoPayload
              /\ ObjectReply
              /\ HasString("expression") /\ HasField("result") /\ HasString("explanation")

\* A reply whose result is the number 42 is returned, as the string "42".
C16_Witness ==
    /\ lastOp = "solveMathProblemFromText" /\ ObjectReply /\ HasField("result")
    /\ arg.reply.text.value.v["result"].t = "number"
    /\ ret.result.kind = "return"
    /\ ret.result.value.result = JsString(<<"4", "2">>)

\* C17: error and solution are never both non-null: at most one of the
\* error banner and the solution panel is shown.
C17_ErrorXorSolution == ~(error # Null /\ solution # Null)

\* A failed solve request takes the place of the solution shown before.
C17_Witness ==
    /\ lastOp = "settle" /\ ~arg.outcome.ok
    /\ error # Null /\ solution = Null /\ ~isLoading

\* C18: every solve request returns loading to false: a solve that sends no
\* request (empty input, no canvas handle) leaves isLoading false at once,
\* isLoading is true only while the solver call is unsettled, the settling
\* of the call sets it false, and, the call settling, loading always comes
\* to an end.
C18_LoadingEnds ==
    /\ [](isLoading => pending # <<>>)
    /\ [][ /\ (lastOp' = "solve" /\ pending' = pending) => ~isLoading'
           /\ lastOp' = "settle" => ~isLoading'
         ]_vars
    /\ (isLoading ~> ~isLoading)

\* A solve in handwriting mode with nothing drawn ends with loading false.
C18_Witness ==
    /\ lastOp = "solve" /\ inputMode = "handwriting" /\ pending = <<>>
    /\ ~isLoading /\ error = ErrorOf(CanvasEmptyMessage)

\* C19: at most one solver request is in flight; no solve and no clear
\* happens while a request is pending; the completion shows the outcome of
\* the one request in flight, whatever the input mode is by then.
C19_OneRequestInFlight ==
    /\ [](Len(pending) <= 1 /\ (pending # <<>> => isLoading))
    /\ [][ /\ lastOp' \in {"solve", "clear"} => pending = <<>>
           /\ lastOp' = "settle" =>
                /\ pending = <<arg'.request>> /\ pending' = <<>>
                /\ IF arg'.outcome.ok
                   THEN solution' = arg'.outcome.value /\ error' = Null
                   ELSE /\ error' = ErrorOf(<<FailedPrefix, arg'.outcome.message>>)
                        /\ solution' = Null
         ]_vars

\* A request made from the drawing completes after the switch to text mode.
C19_Witness ==
    /\ lastOp = "settle" /\ arg.request.kind = "image" /\ inputMode = "text"
    /\ solution # Null /\ pending = <<>>

\* C20 as stated: after the switch from text mode back to handwriting,
\* drawing-active and ink-present are false, the raster is empty and the
\* export returns "no content"; a clear in text mode resets only the typed
\* text.
C20_RemountAndTextClear ==
    [][ /\ (lastOp' = "mode" /\ inputMode = "text" /\ inputMode' = "handwriting") =>
              ~isDrawing' /\ ~isDirty' /\ raster' = {} /\ NoContent'
        /\ (lastOp' = "clear" /\ inputMode = "text") =>
              /\ textProblem' = <<>>
              /\ UNCHANGED <<canvasVars, inputMode, solution, isLoading, error, pending>>
      ]_vars

\* C20: after the switch from text mode back to handwriting, drawing-active
\* and ink-present are false, the raster is empty and the export returns
\* "no content", whatever had been drawn before; a clear in text mode resets
\* the typed text, the solution and the error, and nothing of a surface.
C20_RemountIsFresh ==
    [][ /\ (lastOp' = "mode" /\ inputMode = "text" /\ inputMode' = "handwriting") =>
              ~isDrawing' /\ ~isDirty' /\ raster' = {} /\ NoContent'
        /\ (lastOp' = "clear" /\ inputMode = "text") =>
              /\ textProblem' = <<>> /\ solution' = Null /\ error' = Null
              /\ ~isLoading'
              /\ UNCHANGED <<canvasVars, inputMode, pending>>
      ]_vars

\* Back in handwriting mode on a fresh surface while the request made from
\* the earlier drawing is still pending.
C20_Witness ==
    /\ lastOp = "mode" /\ inputMode = "handwriting" /\ hasContext
    /\ pending = <<[kind |-> "image"]>>
    /\ ~isDrawing /\ ~isDirty /\ raster = {}
====
